---- MODULE Spec2Model ----
(***************************************************************************)
(* Model of speedometer.py: the rolling sample log (class Speedometer),    *)
(* the rate computations (delta, speed, delta_to_speed, curve), the        *)
(* progress estimator (class FileProgress), the background readers of the  *)
(* stdin and command taps with their job lists and the exits of the        *)
(* sampling loops, and the chart (class SpeedGraph, speed_scale).          *)
(*                                                                         *)
(* Time.  time.time() returns a float number of seconds.  The model counts *)
(* time in ticks, TicksPerMs ticks to the millisecond, so that a window    *)
(* shorter than a millisecond (one tick) and a window of zero length are   *)
(* both representable.  A reading is the tuple <<t, bytes>> of the source. *)
(*                                                                         *)
(* Numbers.  The program runs under Python 3 (it uses sys.stdin.buffer,    *)
(* BufferedReader.peek and print()), where int / int is true division.     *)
(* A Python number is modelled as an exact fraction n/d in lowest terms;   *)
(* floating-point rounding is not modelled.                                *)
(***************************************************************************)
EXTENDS Integers, Sequences, FiniteSets, TLC

VARIABLES
    maxlog,         \* Speedometer.maxlog
    log,            \* Speedometer.log: sequence of readings <<t, bytes>>
    start,          \* Speedometer.start: first reading, or NoReading
    current_size,   \* FileProgress.current_size, or NoSize
    expected_size,  \* FileProgress.expected_size
    now,            \* the last value time.time() returned, in ticks
    hist            \* history: every reading ever passed through update()

speedVars == <<maxlog, log, start, current_size, expected_size, now, hist>>

\* The background readers (SubProcessFeed / StdinFeed and their jobs); the
\* per-reader variables are functions over Readers.
VARIABLES
    mode,           \* which sampling loop runs: "graph", "simple", "progress"
    taps,           \* the readers the sampling loop polls
    main_pc,        \* main thread: "run", "stop_cmd", "stop_stdin", "exited"
    idx,            \* stop_all_job: position of its for loop in job_list
    exit_cause,     \* why the sampling loop ended, "none" while it runs
    is_running,     \* feed.is_running
    buffer_current_size,  \* feed.buffer_current_size, or EndOfData
    cmd_job_list,   \* SubprocessJobQueue.job_list
    stdin_job_list, \* StdinJobQueue.job_list
    current_job_process,  \* job.current_job_process: "None", "running", "terminated"
    current_job_process_is_stop,  \* job.current_job_process_is_stop is true
    wpc,            \* position of the reader's thread in run_job
    job_size,       \* run_job's local size, in chunks read
    stream,         \* the pipe the thread reads: "idle", "data", "eof", "error"
    produced,       \* chunks the source has written so far
    first_poll,     \* history: what the first poll returned, or NotPolled
    spawned,        \* history: threads started for the reader
    stop_calls,     \* history: stop_job() calls stop_all_job made on the job
    stop_midread,   \* history: stop_all_job reached the job while it read
    faulted         \* history: the reader's source has failed

jobVars == <<mode, taps, main_pc, idx, exit_cause, is_running,
             buffer_current_size, cmd_job_list, stdin_job_list,
             current_job_process, current_job_process_is_stop, wpc, job_size,
             stream, produced, first_poll, spawned, stop_calls, stop_midread,
             faulted>>

\* The chart (class SpeedGraph and the scale settings)
VARIABLES
    graph_log,      \* SpeedGraph.log: the raw rates, None as NoRate
    bar,            \* SpeedGraph.bar: the scaled rates
    logarithmic_scale,  \* global logarithmic_scale
    chart_minimum,  \* global chart_minimum
    chart_maximum,  \* global chart_maximum
    units_per_second,   \* global units_per_second
    graph_scale,    \* global graph_scale: the values s of its (s, caption)
                    \* pairs, or NoScale
    graph_hist      \* history: every rate ever passed to append_log

graphVars == <<graph_log, bar, logarithmic_scale, chart_minimum,
               chart_maximum, units_per_second, graph_scale, graph_hist>>

\* console(): the taps, the wait for their resources, and the loop that
\* polls them (MultiGraphDisplay, or do_progress in plain text)
VARIABLES
    urwid_ui,       \* parse_args: graphical display (TRUE) or plain text
    exit_on_complete,   \* parse_args: -x
    zero_files,     \* parse_args: -z
    cols,           \* the taps in the order of cols, each by its kind:
                    \* "file_exp", "file", "net" or "cmd"
    available,      \* per tap: its file exists / its interface is present
    wait_idx,       \* wait_all: index of the tap whose wait_creation runs
    sleeps,         \* history: number of time.sleep(1) of wait_creation
    feed_value,     \* per tap: what tap.feed() returns now, or EndOfData
    disp_current,   \* per display: the latest reading recorded, or NoSize
    disp_updates,   \* per display: number of spd.update() calls
    disp_appends,   \* per display: number of append_log() calls
    tick_polls,     \* history: the <<tap, value>> polls of the latest tick
    ticks,          \* history: number of ticks started
    alarm,          \* an update_callback alarm is set in the urwid loop
    loop_pc,        \* "wait", "main", "called", "loop", "polling", "exited"
    loop_exit       \* "none", "eod", "complete", "interrupt", "sys.exit(1)"

consoleVars == <<urwid_ui, exit_on_complete, zero_files, cols, available,
                 wait_idx, sleeps, feed_value, disp_current, disp_updates,
                 disp_appends, tick_polls, ticks, alarm, loop_pc, loop_exit>>

vars == <<speedVars, jobVars, graphVars, consoleVars>>

----------------------------------------------------------------------------
(* Bounds of the model *)

TicksPerMs == 2          \* clock resolution of the model
MaxLog == 2              \* Spec: maxlog ranges over 1..MaxLog
MaxUpdates == 4          \* Spec: number of update() calls
MaxBytes == 1            \* Spec: the feed returns 0..MaxBytes
MaxSkip == 6             \* largest skip argument tried on delta()
MaxProgressUpdates == 7  \* SpecProgress: number of update() calls
MaxCurveUpdates == 8     \* SpecCurve: number of update() calls
MaxChunks == 2           \* chunks a reader's source writes
MaxAppends == 16         \* SpecGraph: number of append_log() calls
MaxRampAppends == 303    \* SpecGraphRamp: number of append_log() calls
MaxReplay == 12          \* SpecReplay: number of append_log() calls
MaxCol == 20             \* widest chart rendered
MaxStallUpdates == 7     \* SpecCurveStall: number of update() calls
MaxTaps == 2             \* SpecDisplay, SpecWait: number of taps
MaxTicks == 3            \* SpecDisplay: number of ticks
MaxFileSize == 3         \* SpecDisplay: largest value a feed returns
TapExpectedSize == 2     \* SpecDisplay: expected size of a file_exp tap
MaxSleeps == 2           \* SpecWait: number of one-second sleeps
MaxResetUpdates == 6     \* SpecReset: number of update() calls

TicksPerSec == 1000 * TicksPerMs

----------------------------------------------------------------------------
(* Python values *)

NoReading == << >>       \* self.start = None
NoSize == -1             \* self.current_size = None

RECURSIVE GCD(_, _)
GCD(a, b) == IF b = 0 THEN a ELSE GCD(b, a % b)

Abs(x) == IF x < 0 THEN -x ELSE x

\* int(x) of Python for the fraction n/d, d > 0: truncation toward zero
Trunc(n, d) == IF n >= 0 THEN n \div d ELSE -((-n) \div d)

\* the fraction n/d (d # 0) in lowest terms with a positive denominator
Frac(n, d) ==
    LET g == GCD(Abs(n), Abs(d))
        s == IF d < 0 THEN -1 ELSE 1
    IN  [n |-> (s * n) \div g, d |-> (s * d) \div g]

FracAdd(a, b) ==
    LET g == GCD(a.d, b.d)
    IN  Frac(a.n * (b.d \div g) + b.n * (a.d \div g), (a.d \div g) * b.d)

\* results of the operations: a number, None, or a raised exception
Number(n, d) == [tag |-> "number", val |-> Frac(n, d)]
None == [tag |-> "None", val |-> Frac(0, 1)]
Raised(e) == [tag |-> e, val |-> Frac(0, 1)]
IsNumber(r) == r.tag = "number"
IsWhole(r) == r.tag = "number" /\ r.val.d = 1
EqualsInt(r, k) == r.tag = "number" /\ r.val = Frac(k, 1)

\* results of delta(): the tuple (time_passed, byte_increase), None, or raised
DeltaTuple(t, b) == [tag |-> "tuple", time_passed |-> t, byte_increase |-> b]
DeltaNone == [tag |-> "None", time_passed |-> 0, byte_increase |-> 0]
DeltaRaised(e) == [tag |-> e, time_passed |-> 0, byte_increase |-> 0]

----------------------------------------------------------------------------
(* class Speedometer *)

\* self.log[-(self.maxlog+1):]
LastEntries(l, k) ==
    IF Len(l) <= k THEN l ELSE SubSeq(l, Len(l) - k + 1, Len(l))

\* update() trimming to maxlog entries instead of maxlog+1
Speedometer_update_trims_to_maxlog(t, bytes) ==
    LET reading == <<t, bytes>>
    IN  /\ start' = IF start = NoReading THEN reading ELSE start
        /\ log' = LastEntries(Append(log, reading), maxlog)
        /\ now' = t
        /\ hist' = Append(hist, reading)

\* Speedometer.update(bytes), t being the value time.time() returns
Speedometer_update(t, bytes) ==
    LET reading == <<t, bytes>>
    IN  /\ start' = IF start = NoReading THEN reading ELSE start
        /\ log' = LastEntries(Append(log, reading), maxlog + 1)
        /\ now' = t
        /\ hist' = Append(hist, reading)

\* delta() taking its target one reading too late: log[-(readings+skip)]
delta_short_target(readings, skip) ==
    IF ~(readings >= 0) \/ ~(readings <= maxlog) \/ ~(skip >= 0)
       \/ (skip > 0 /\ ~(readings > 0))
    THEN DeltaRaised("AssertionError")
    ELSE IF skip > Len(log) - 1 THEN DeltaNone
    ELSE LET current == log[Len(log) - skip]
             target == IF readings = 0 THEN start
                       ELSE IF Len(log) > readings + skip
                            THEN log[Len(log) - (readings + skip) + 1]
                            ELSE NoReading
         IN  IF target = NoReading THEN DeltaNone
             ELSE IF target = current THEN DeltaNone
             ELSE DeltaTuple(current[1] - target[1], current[2] - target[2])

\* delta() without its "not enough data" test on skip: log[-1-skip] then
\* raises IndexError on a log that is too short
delta_unchecked(readings, skip) ==
    IF ~(readings >= 0) \/ ~(readings <= maxlog) \/ ~(skip >= 0)
       \/ (skip > 0 /\ ~(readings > 0))
    THEN DeltaRaised("AssertionError")
    ELSE IF skip > Len(log) - 1 THEN DeltaRaised("IndexError")
    ELSE LET current == log[Len(log) - skip]
             target == IF readings = 0 THEN start
                       ELSE IF Len(log) > readings + skip
                            THEN log[Len(log) - (readings + skip)]
                            ELSE NoReading
         IN  IF target = NoReading THEN DeltaNone
             ELSE IF target = current THEN DeltaNone
             ELSE DeltaTuple(current[1] - target[1], current[2] - target[2])

\* delta() without its "target == current" test
delta_no_same_test(readings, skip) ==
    IF ~(readings >= 0) \/ ~(readings <= maxlog) \/ ~(skip >= 0)
       \/ (skip > 0 /\ ~(readings > 0))
    THEN DeltaRaised("AssertionError")
    ELSE IF skip > Len(log) - 1 THEN DeltaNone
    ELSE LET current == log[Len(log) - skip]
             target == IF readings = 0 THEN start
                       ELSE IF Len(log) > readings + skip
                            THEN log[Len(log) - (readings + skip)]
                            ELSE NoReading
         IN  IF target = NoReading THEN DeltaNone
             ELSE DeltaTuple(current[1] - target[1], current[2] - target[2])

\* Speedometer.delta(readings, skip); time_passed in ticks
delta(readings, skip) ==
    IF ~(readings >= 0) \/ ~(readings <= maxlog) \/ ~(skip >= 0)
       \/ (skip > 0 /\ ~(readings > 0))
    THEN DeltaRaised("AssertionError")
    ELSE IF skip > Len(log) - 1 THEN DeltaNone
    ELSE LET current == log[Len(log) - skip]
             target == IF readings = 0 THEN start
                       ELSE IF Len(log) > readings + skip
                            THEN log[Len(log) - (readings + skip)]
                            ELSE NoReading
         IN  IF target = NoReading THEN DeltaNone
             ELSE IF target = current THEN DeltaNone
             ELSE DeltaTuple(current[1] - target[1], current[2] - target[2])

\* delta_to_speed() reporting no rate for a counter that went down
delta_to_speed_clamped(time_passed, byte_increase) ==
    LET ms == Trunc(time_passed.n * 1000, time_passed.d)
    IN  IF time_passed.n <= 0 THEN Number(0, 1)
        ELSE IF ms = 0 THEN Number(0, 1)
        ELSE IF byte_increase.n < 0 THEN Number(0, 1)
        ELSE Number(Trunc(byte_increase.n * 1000, byte_increase.d), ms)

\* delta_to_speed() dividing the bytes, not the bytes times 1000, by the
\* milliseconds
delta_to_speed_unscaled(time_passed, byte_increase) ==
    LET ms == Trunc(time_passed.n * 1000, time_passed.d)
    IN  IF time_passed.n <= 0 THEN Number(0, 1)
        ELSE IF ms = 0 THEN Number(0, 1)
        ELSE Number(Trunc(byte_increase.n, byte_increase.d), ms)

\* delta_to_speed((time_passed, byte_increase)); time_passed in seconds and
\* byte_increase are fractions
delta_to_speed(time_passed, byte_increase) ==
    LET ms == Trunc(time_passed.n * 1000, time_passed.d)
    IN  IF time_passed.n <= 0 THEN Number(0, 1)
        ELSE IF ms = 0 THEN Number(0, 1)
        ELSE Number(Trunc(byte_increase.n * 1000, byte_increase.d), ms)

\* Speedometer.speed(readings, skip)
speed(readings, skip) ==
    LET d == delta(readings, skip)
    IN  IF d.tag = "tuple"
        THEN delta_to_speed(Frac(d.time_passed, TicksPerSec),
                            Frac(d.byte_increase, 1))
        ELSE IF d.tag = "None" THEN None
        ELSE Raised(d.tag)

----------------------------------------------------------------------------
(* curve(spd) *)

\* the weights with the oldest interval weighing most
val_oldest_heaviest == <<1, 2, 3, 4, 5, 6>>

val == <<6, 5, 4, 3, 2, 1>>   \* speed sampling relative weights

\* ws += float(b)/t: the weight left out of the weighted sum
curve_term_unweighted(ws, b, v, t) == FracAdd(ws, Frac(b * TicksPerSec, t))

\* ws += float(b)*v/t, t in ticks
curve_term(ws, b, v, t) == FracAdd(ws, Frac(b * v * TicksPerSec, t))

\* the loop of curve() from index i on (i = 0..5 in the source, val[i+1] here)
RECURSIVE curve_loop(_, _, _)
curve_loop(i, wtot, ws) ==
    IF i = Len(val) THEN delta_to_speed(Frac(wtot, 1), ws)
    ELSE LET d == delta(1, i)
         IN  IF d.tag = "None" THEN delta_to_speed(Frac(wtot, 1), ws)
             ELSE IF d.tag # "tuple" THEN Raised(d.tag)
             ELSE IF d.time_passed = 0 THEN Raised("ZeroDivisionError")
             ELSE curve_loop(i + 1, wtot + val[i + 1],
                             curve_term(ws, d.byte_increase, val[i + 1],
                                        d.time_passed))

curve == curve_loop(0, 0, Frac(0, 1))

----------------------------------------------------------------------------
(* class FileProgress *)

samples_for_estimate == 4

\* FileProgress.update(current_size)
FileProgress_update(t, size) ==
    /\ current_size' = size
    /\ Speedometer_update(t, size)

\* FileProgress.progress()
progress == <<current_size, expected_size>>

\* completion_estimate() testing "all done" before "currently stalled"
completion_estimate_done_first ==
    LET d == delta(samples_for_estimate, 0)
    IN  IF d.tag = "None" THEN None
        ELSE IF d.tag # "tuple" THEN Raised(d.tag)
        ELSE LET remaining == expected_size - current_size
             IN  IF remaining <= 0 THEN Number(0, 1)
                 ELSE IF d.byte_increase <= 0 THEN None
                 ELSE Number(remaining * d.time_passed,
                             TicksPerSec * d.byte_increase)

\* FileProgress.completion_estimate(): seconds remaining
completion_estimate ==
    LET d == delta(samples_for_estimate, 0)
    IN  IF d.tag = "None" THEN None
        ELSE IF d.tag # "tuple" THEN Raised(d.tag)
        ELSE IF d.byte_increase <= 0 THEN None
        ELSE LET remaining == expected_size - current_size
             IN  IF remaining <= 0 THEN Number(0, 1)
                 ELSE Number(remaining * d.time_passed,
                             TicksPerSec * d.byte_increase)

\* FileProgress.average_speed()
average_speed == speed(0, 0)

\* FileProgress.current_speed()
current_speed == speed(1, 0)

----------------------------------------------------------------------------
(* The background readers.  A SubProcessFeed or StdinFeed is polled by the *)
(* sampling loop on the main thread; its first poll constructs a job,      *)
(* which registers itself in its class's job_list, and starts a thread on  *)
(* the job's run_job.  The thread counts the bytes it reads in chunks of   *)
(* default_read_size and publishes the count in the feed's                 *)
(* buffer_current_size; the pipe is modelled at chunk granularity (it      *)
(* holds no data, one chunk, end of file, or has failed).                  *)

Readers == {"cmd1", "cmd2", "stdin"}    \* two -d taps and the stdin tap
IsCmd(r) == r # "stdin"

EndOfData == -1          \* the value None a feed returns
NotPolled == -2          \* first_poll before the first poll
default_read_size == 10240 * 100

\* SubProcessFeed.__init__ / StdinFeed.__init__
Feed_init(r) == IF IsCmd(r) THEN 1 ELSE 0

\* SubprocessJob.__init__ / StdinJob.__init__ without the registration
Job_init_unregistered(r) ==
    /\ current_job_process' = [current_job_process EXCEPT ![r] = "None"]
    /\ current_job_process_is_stop' =
           [current_job_process_is_stop EXCEPT ![r] = FALSE]
    /\ UNCHANGED <<cmd_job_list, stdin_job_list>>

\* SubprocessJob.__init__ / StdinJob.__init__
Job_init(r) ==
    /\ current_job_process' = [current_job_process EXCEPT ![r] = "None"]
    /\ current_job_process_is_stop' =
           [current_job_process_is_stop EXCEPT ![r] = FALSE]
    /\ cmd_job_list' = IF IsCmd(r) THEN Append(cmd_job_list, r)
                                   ELSE cmd_job_list
    /\ stdin_job_list' = IF IsCmd(r) THEN stdin_job_list
                                     ELSE Append(stdin_job_list, r)

\* what stdinfn returns
stdinfn_result(r) == IF is_running[r] THEN buffer_current_size[r] ELSE 0

\* stdinfn that forgets it has started its reader
stdinfn_always_starts(r) ==
    /\ Job_init(r)
    /\ wpc' = [wpc EXCEPT ![r] = "start"]
    /\ spawned' = [spawned EXCEPT ![r] = @ + 1]
    /\ UNCHANGED is_running

\* SubProcessFeed.stdinfn / StdinFeed.stdinfn
stdinfn(r) ==
    IF is_running[r]
    THEN UNCHANGED <<is_running, current_job_process,
                     current_job_process_is_stop, cmd_job_list,
                     stdin_job_list, wpc, spawned>>
    ELSE /\ is_running' = [is_running EXCEPT ![r] = TRUE]
         /\ Job_init(r)
         /\ wpc' = [wpc EXCEPT ![r] = "start"]
         /\ spawned' = [spawned EXCEPT ![r] = @ + 1]

\* SubprocessJob.stop_job that only raises the flag
SubprocessJob_stop_job_no_terminate(r) ==
    /\ current_job_process_is_stop' =
           [current_job_process_is_stop EXCEPT
               ![r] = IF current_job_process[r] = "None" THEN @ ELSE TRUE]
    /\ UNCHANGED current_job_process

\* SubprocessJob.stop_job: nothing happens while no process exists
SubprocessJob_stop_job(r) ==
    /\ current_job_process' =
           [current_job_process EXCEPT
               ![r] = IF @ = "None" THEN @ ELSE "terminated"]
    /\ current_job_process_is_stop' =
           [current_job_process_is_stop EXCEPT
               ![r] = IF current_job_process[r] = "None" THEN @ ELSE TRUE]

\* StdinJob.stop_job
StdinJob_stop_job(r) ==
    /\ current_job_process_is_stop' =
           [current_job_process_is_stop EXCEPT ![r] = TRUE]
    /\ UNCHANGED current_job_process

stop_job(r) ==
    IF IsCmd(r) THEN SubprocessJob_stop_job(r) ELSE StdinJob_stop_job(r)

\* feed.set_buffer_size
set_buffer_size(r, size) ==
    buffer_current_size' = [buffer_current_size EXCEPT ![r] = size]

mainVars == <<mode, taps, main_pc, idx, exit_cause, is_running, cmd_job_list,
              stdin_job_list, first_poll, spawned, stop_calls, stop_midread>>

----------------------------------------------------------------------------
(* The main thread *)

\* one f = feed() of the sampling loop (do_simple, do_progress, or
\* GraphDisplay.update_readings under MultiGraphDisplay.update_callback):
\* a None ends the loop
Poll(r) ==
    /\ main_pc = "run"
    /\ r \in taps
    /\ stdinfn(r)
    /\ first_poll' = [first_poll EXCEPT
                         ![r] = IF @ = NotPolled THEN stdinfn_result(r) ELSE @]
    /\ IF stdinfn_result(r) = EndOfData
       THEN main_pc' = "exited" /\ exit_cause' = "eod"
       ELSE UNCHANGED <<main_pc, exit_cause>>
    /\ UNCHANGED <<mode, taps, idx, buffer_current_size, job_size, stream,
                   produced, stop_calls, stop_midread, faulted>>

\* MultiGraphDisplay.unhandled_input: q, Q or esc
Quit ==
    /\ main_pc = "run"
    /\ mode = "graph"
    /\ main_pc' = "stop_cmd"
    /\ idx' = 1
    /\ exit_cause' = "quit"
    /\ UNCHANGED <<mode, taps, is_running, buffer_current_size, cmd_job_list,
                   stdin_job_list, current_job_process,
                   current_job_process_is_stop, wpc, job_size, stream,
                   produced, first_poll, spawned, stop_calls, stop_midread,
                   faulted>>

\* KeyboardInterrupt in the sampling loop.  do_simple broadcasts the stop;
\* do_progress calls stop_job on the classes, which raises TypeError; the
\* graphical loop has no handler but the final one of __main__.
Interrupt ==
    /\ main_pc = "run"
    /\ exit_cause' = "interrupt"
    /\ IF mode = "simple"
       THEN main_pc' = "stop_cmd" /\ idx' = 1
       ELSE main_pc' = "exited" /\ UNCHANGED idx
    /\ UNCHANGED <<mode, taps, is_running, buffer_current_size, cmd_job_list,
                   stdin_job_list, current_job_process,
                   current_job_process_is_stop, wpc, job_size, stream,
                   produced, first_poll, spawned, stop_calls, stop_midread,
                   faulted>>

\* one iteration of a stop_all_job loop over job_list
stop_all_job_step(job_list, next_pc) ==
    /\ IF idx <= Len(job_list)
       THEN LET r == job_list[idx] IN
            /\ stop_job(r)
            /\ stop_calls' = [stop_calls EXCEPT ![r] = @ + 1]
            /\ stop_midread' = [stop_midread EXCEPT
                   ![r] = @ \/ (IsCmd(r) /\ wpc[r] \in {"check", "read"})]
            /\ idx' = idx + 1
            /\ UNCHANGED main_pc
       ELSE /\ main_pc' = next_pc
            /\ idx' = 1
            /\ UNCHANGED <<current_job_process, current_job_process_is_stop,
                           stop_calls, stop_midread>>
    /\ UNCHANGED <<mode, taps, exit_cause, is_running, buffer_current_size,
                   cmd_job_list, stdin_job_list, wpc, job_size, stream,
                   produced, first_poll, spawned, faulted>>

\* SubprocessJobQueue.stop_all_job
SubprocessJobQueue_stop_all_job ==
    /\ main_pc = "stop_cmd"
    /\ stop_all_job_step(cmd_job_list, "stop_stdin")

\* StdinJobQueue.stop_all_job
StdinJobQueue_stop_all_job ==
    /\ main_pc = "stop_stdin"
    /\ stop_all_job_step(stdin_job_list, "exited")

----------------------------------------------------------------------------
(* The reader threads.  Each action is one step of run_job; a step that    *)
(* waits (peek, select, read) is enabled when the wait is over.            *)

workerUnchanged == <<mainVars, produced, faulted>>

\* SubprocessJob.run_job: Popen; an exception ends the thread
SubprocessJob_run_job_popen(r) ==
    /\ IsCmd(r)
    /\ wpc[r] = "start"
    /\ IF stream[r] = "error"
       THEN /\ wpc' = [wpc EXCEPT ![r] = "dead"]
            /\ UNCHANGED current_job_process
       ELSE /\ wpc' = [wpc EXCEPT ![r] = "check"]
            /\ current_job_process' =
                   [current_job_process EXCEPT ![r] = "running"]
    /\ UNCHANGED <<current_job_process_is_stop, job_size,
                   buffer_current_size, stream, workerUnchanged>>

\* SubprocessJob.run_job: the condition of the if; peek() returns once the
\* pipe has data or is at end of file, and raises if the pipe has failed
SubprocessJob_run_job_test(r) ==
    /\ IsCmd(r)
    /\ wpc[r] = "check"
    /\ stream[r] # "idle"
    /\ wpc' = [wpc EXCEPT ![r] =
                  IF stream[r] = "error" THEN "dead"
                  ELSE IF stream[r] = "data"
                          /\ ~current_job_process_is_stop[r] THEN "read"
                  ELSE "stop"]
    /\ UNCHANGED <<current_job_process, current_job_process_is_stop, job_size,
                   buffer_current_size, stream, workerUnchanged>>

\* SubprocessJob.run_job: read a chunk, count it and publish the count
SubprocessJob_run_job_read(r) ==
    /\ IsCmd(r)
    /\ wpc[r] = "read"
    /\ IF stream[r] = "error"
       THEN /\ wpc' = [wpc EXCEPT ![r] = "dead"]
            /\ UNCHANGED <<job_size, buffer_current_size, stream>>
       ELSE /\ wpc' = [wpc EXCEPT ![r] = "check"]
            /\ job_size' = [job_size EXCEPT ![r] = @ + 1]
            /\ set_buffer_size(r, (job_size[r] + 1) * default_read_size)
            /\ stream' = [stream EXCEPT
                             ![r] = IF @ = "data" THEN "idle" ELSE @]
    /\ UNCHANGED <<current_job_process, current_job_process_is_stop,
                   workerUnchanged>>

\* StdinJob.run_job: the thread starts
StdinJob_run_job_begin(r) ==
    /\ ~IsCmd(r)
    /\ wpc[r] = "start"
    /\ wpc' = [wpc EXCEPT ![r] = "check"]
    /\ UNCHANGED <<current_job_process, current_job_process_is_stop, job_size,
                   buffer_current_size, stream, workerUnchanged>>

\* StdinJob.run_job: the condition of the while; when the flag is raised
\* the loop, and the thread, end
StdinJob_run_job_test(r) ==
    /\ ~IsCmd(r)
    /\ wpc[r] = "check"
    /\ wpc' = [wpc EXCEPT ![r] =
                  IF current_job_process_is_stop[r] THEN "done" ELSE "select"]
    /\ UNCHANGED <<current_job_process, current_job_process_is_stop, job_size,
                   buffer_current_size, stream, workerUnchanged>>

\* StdinJob.run_job: select() returns once stdin is readable
StdinJob_run_job_select(r) ==
    /\ ~IsCmd(r)
    /\ wpc[r] = "select"
    /\ stream[r] # "idle"
    /\ wpc' = [wpc EXCEPT ![r] = "read"]
    /\ UNCHANGED <<current_job_process, current_job_process_is_stop, job_size,
                   buffer_current_size, stream, workerUnchanged>>

\* StdinJob.run_job: read a chunk inside try/except; data is counted and
\* published, no data or an exception leads to the else branch
StdinJob_run_job_read(r) ==
    /\ ~IsCmd(r)
    /\ wpc[r] = "read"
    /\ IF stream[r] = "data"
       THEN /\ wpc' = [wpc EXCEPT ![r] = "check"]
            /\ job_size' = [job_size EXCEPT ![r] = @ + 1]
            /\ set_buffer_size(r, (job_size[r] + 1) * default_read_size)
            /\ stream' = [stream EXCEPT ![r] = "idle"]
       ELSE /\ wpc' = [wpc EXCEPT ![r] = "stop"]
            /\ UNCHANGED <<job_size, buffer_current_size, stream>>
    /\ UNCHANGED <<current_job_process, current_job_process_is_stop,
                   workerUnchanged>>

\* run_job, else branch: self.stop_job()
run_job_stop(r) ==
    /\ wpc[r] = "stop"
    /\ stop_job(r)
    /\ wpc' = [wpc EXCEPT ![r] = "publish"]
    /\ UNCHANGED <<job_size, buffer_current_size, stream, workerUnchanged>>

\* the else branch publishing a zero where None is due
run_job_publish_zero(r) ==
    /\ wpc[r] = "publish"
    /\ set_buffer_size(r, 0)
    /\ wpc' = [wpc EXCEPT ![r] = "done"]
    /\ UNCHANGED <<current_job_process, current_job_process_is_stop, job_size,
                   stream, workerUnchanged>>

\* run_job, else branch: self.feed.set_buffer_size(None); break
run_job_publish_none(r) ==
    /\ wpc[r] = "publish"
    /\ set_buffer_size(r, EndOfData)
    /\ wpc' = [wpc EXCEPT ![r] = "done"]
    /\ UNCHANGED <<current_job_process, current_job_process_is_stop, job_size,
                   stream, workerUnchanged>>

Worker(r) ==
    \/ SubprocessJob_run_job_popen(r)
    \/ SubprocessJob_run_job_test(r)
    \/ SubprocessJob_run_job_read(r)
    \/ StdinJob_run_job_begin(r)
    \/ StdinJob_run_job_test(r)
    \/ StdinJob_run_job_select(r)
    \/ StdinJob_run_job_read(r)
    \/ run_job_stop(r)
    \/ run_job_publish_none(r)

----------------------------------------------------------------------------
(* The sources the threads read *)

envUnchanged == <<mainVars, buffer_current_size, current_job_process,
                  current_job_process_is_stop, wpc, job_size>>

\* the command, or whatever feeds stdin, writes a chunk
Produce(r) ==
    /\ stream[r] = "idle"
    /\ produced[r] < MaxChunks
    /\ IF IsCmd(r) THEN current_job_process[r] = "running" ELSE r \in taps
    /\ stream' = [stream EXCEPT ![r] = "data"]
    /\ produced' = [produced EXCEPT ![r] = @ + 1]
    /\ UNCHANGED <<envUnchanged, faulted>>

\* the command exits, or stdin is closed, of its own accord
EndOfStream(r) ==
    /\ stream[r] = "idle"
    /\ IF IsCmd(r) THEN current_job_process[r] = "running" ELSE r \in taps
    /\ stream' = [stream EXCEPT ![r] = "eof"]
    /\ UNCHANGED <<envUnchanged, produced, faulted>>

\* a terminated command exits and its pipe reaches end of file
ProcessExit(r) ==
    /\ current_job_process[r] = "terminated"
    /\ stream[r] \in {"idle", "data"}
    /\ stream' = [stream EXCEPT ![r] = "eof"]
    /\ UNCHANGED <<envUnchanged, produced, faulted>>

\* the source fails: Popen, peek or read will raise
Fault(r) ==
    /\ r \in taps
    /\ stream[r] \in {"idle", "data"}
    /\ ~faulted[r]
    /\ stream' = [stream EXCEPT ![r] = "error"]
    /\ faulted' = [faulted EXCEPT ![r] = TRUE]
    /\ UNCHANGED <<envUnchanged, produced>>

----------------------------------------------------------------------------
(* Initial states of the readers *)

JobsInit(m, t) ==
    /\ mode = m
    /\ taps = t
    /\ main_pc = "run"
    /\ idx = 1
    /\ exit_cause = "none"
    /\ is_running = [r \in Readers |-> FALSE]
    /\ buffer_current_size = [r \in Readers |-> Feed_init(r)]
    /\ cmd_job_list = << >>
    /\ stdin_job_list = << >>
    /\ current_job_process = [r \in Readers |-> "None"]
    /\ current_job_process_is_stop = [r \in Readers |-> FALSE]
    /\ wpc = [r \in Readers |-> "idle"]
    /\ job_size = [r \in Readers |-> 0]
    /\ stream = [r \in Readers |-> "idle"]
    /\ produced = [r \in Readers |-> 0]
    /\ first_poll = [r \in Readers |-> NotPolled]
    /\ spawned = [r \in Readers |-> 0]
    /\ stop_calls = [r \in Readers |-> 0]
    /\ stop_midread = [r \in Readers |-> FALSE]
    /\ faulted = [r \in Readers |-> FALSE]

\* no reader is configured
JobsAtRest == JobsInit("simple", {})

----------------------------------------------------------------------------
(* The chart.  A rate is a result of speed(): None or a number.  A chart   *)
(* position is a number too, but in logarithmic mode it is the base-2      *)
(* logarithm of a positive fraction, which is irrational in general: it is *)
(* kept as Lg(q), standing for log2(q), next to Lin(x), standing for x.    *)
(* Differences and comparisons of logarithms are computed on their         *)
(* arguments (log2 a - log2 b = log2 (a/b); log2 a < log2 b iff a < b).    *)
(* Floating-point rounding of math.log is not modelled.                    *)

FracLess(a, b) == a.n * b.d < b.n * a.d
FracSub(a, b) == Frac(a.n * b.d - b.n * a.d, a.d * b.d)
FracDiv(a, b) == Frac(a.n * b.d, a.d * b.n)

Lin(x) == [log |-> FALSE, arg |-> x]
Lg(q) == [log |-> TRUE, arg |-> q]         \* math.log(q, 2)
Zero == Lin(Frac(0, 1))                    \* the literal 0

\* a < b; a logarithm is only ever compared with a logarithm or with 0
PosLess(a, b) ==
    IF a.log = b.log THEN FracLess(a.arg, b.arg)
    ELSE IF a.log THEN FracLess(a.arg, Frac(1, 1))
    ELSE FracLess(Frac(1, 1), b.arg)

PosEq(a, b) == ~PosLess(a, b) /\ ~PosLess(b, a)

\* a - b of two positions of the same mode
PosSub(a, b) ==
    IF a.log THEN Lg(FracDiv(a.arg, b.arg)) ELSE Lin(FracSub(a.arg, b.arg))

\* Python's max(a, b) and min(a, b): the first argument wins a tie
PyMax(a, b) == IF PosLess(a, b) THEN b ELSE a
PyMin(a, b) == IF PosLess(b, a) THEN b ELSE a

graph_min ==
    IF logarithmic_scale THEN Lg(Frac(chart_minimum, 1))
                         ELSE Lin(Frac(chart_minimum, 1))

graph_max ==
    IF logarithmic_scale THEN Lg(Frac(chart_maximum, 1))
                         ELSE Lin(Frac(chart_maximum, 1))

graph_range == PosSub(graph_max, graph_min)

----------------------------------------------------------------------------
(* update_scale().  Only the values of the scale are kept: the captions    *)
(* (fixed strings of the table, readable_speed(n) in linear mode) play no  *)
(* part in what follows.                                                   *)

NoScale == [tag |-> "None", items |-> << >>]      \* graph_scale = None
Scale(items) == [tag |-> "list", items |-> items]

FracMul(a, b) == Frac(a.n * b.n, a.d * b.d)

\* the values s of predefined[units]
predefined(units) ==
    IF units = "bytes" THEN <<2^10, 2^15, 2^20, 2^25, 2^30>>
                       ELSE <<2^7, 2^12, 2^17, 2^22, 2^27>>

\* the list comprehension of the logarithmic branch
log_scale ==
    LET kept == SelectSeq(predefined(units_per_second),
                          LAMBDA s : chart_minimum < s /\ s < chart_maximum)
    IN  [k \in 1..Len(kept) |-> Frac(kept[k], 1)]

RECURSIVE FloorLog2(_)
FloorLog2(r) == IF r < 2 THEN 0 ELSE 1 + FloorLog2(r \div 2)
CeilLog2(r) == IF r = 2^FloorLog2(r) THEN FloorLog2(r) ELSE FloorLog2(r) + 1

\* int(math.log(graph_range(), 2) - 2): int() drops the fraction, rounding
\* towards zero
granularity_exponent ==
    LET r == graph_range.arg.n
    IN  IF r >= 4 THEN FloorLog2(r) - 2 ELSE CeilLog2(r) - 2

\* granularity = 2**int(granularity): a float below 1 for a negative
\* exponent
granularity ==
    LET e == granularity_exponent
    IN  IF e >= 0 THEN Frac(2^e, 1) ELSE Frac(1, 2^(0 - e))

\* n, r = divmod(chart_minimum, granularity);
\* n = n * granularity + (granularity if r else 0)
first_line ==
    LET q == FracDiv(Frac(chart_minimum, 1), granularity)
        n == Frac(q.n \div q.d, 1)
    IN  IF q.d = 1 THEN FracMul(n, granularity)
        ELSE FracAdd(FracMul(n, granularity), granularity)

\* the while loop of the linear branch
RECURSIVE linear_scale(_)
linear_scale(n) ==
    IF FracLess(n, Frac(chart_maximum, 1))
    THEN <<n>> \o linear_scale(FracAdd(n, granularity))
    ELSE << >>

\* the value update_scale() leaves in graph_scale
new_graph_scale ==
    IF logarithmic_scale THEN Scale(log_scale)
    ELSE Scale(linear_scale(first_line))

\* update_scale()
update_scale ==
    /\ graph_scale' = new_graph_scale
    /\ UNCHANGED <<graph_log, bar, logarithmic_scale, chart_minimum,
                   chart_maximum, units_per_second, graph_hist>>

\* speed_scale with the two clamps exchanged
speed_scale_clamps_swapped(s) ==
    IF s.tag = "None" \/ ~FracLess(Frac(0, 1), s.val) THEN Zero
    ELSE LET x == IF logarithmic_scale THEN Lg(s.val) ELSE Lin(s.val)
         IN  PyMax(graph_range, PyMin(Zero, PosSub(x, graph_min)))

speed_scale(s) ==
    IF s.tag = "None" \/ ~FracLess(Frac(0, 1), s.val) THEN Zero
    ELSE LET x == IF logarithmic_scale THEN Lg(s.val) ELSE Lin(s.val)
         IN  PyMin(graph_range, PyMax(Zero, PosSub(x, graph_min)))

\* l[-history_keep:]
history_keep == 300

\* SpeedGraph.append_log that never trims
append_log_untrimmed(s) ==
    /\ bar' = Append(bar, <<speed_scale(s)>>)
    /\ graph_log' = Append(graph_log, s)

\* SpeedGraph.append_log
append_log(s) ==
    /\ bar' = Append(LastEntries(bar, history_keep), <<speed_scale(s)>>)
    /\ graph_log' = Append(LastEntries(graph_log, history_keep), s)

----------------------------------------------------------------------------
(* SpeedGraph.local_maximums.  Indexes are those of the source, from 0:    *)
(* l(i) is self.log[i].  In every state of the model only l(0) can be      *)
(* None, as in the program, where the first speed(1) is None and no later  *)
(* one is; comparing None with a number would raise TypeError.             *)

ldist == 4
rdist == 5
dist == ldist + rdist

l(i) == graph_log[i + 1]
Max(a, b) == IF a > b THEN a ELSE b
Min(a, b) == IF a < b THEN a ELSE b

\* the first for loop letting a rate that equals its left neighbour pass
is_high_keeps_run(i) ==
    LET li == l(i) IN
    /\ ~(li.tag = "number" /\ li.val = Frac(0, 1))
    /\ ~(i # 0 /\ l(i - 1).tag # "None" /\ FracLess(li.val, l(i - 1).val))
    /\ ~(li.tag = "None" \/ FracLess(li.val, l(i + 1).val))

\* the body of the first for loop: does index i enter highs
is_high(i) ==
    LET li == l(i) IN
    /\ ~(li.tag = "number" /\ li.val = Frac(0, 1))
    /\ ~(i # 0 /\ l(i - 1).tag # "None" /\ ~FracLess(l(i - 1).val, li.val))
    /\ ~(li.tag = "None" \/ FracLess(li.val, l(i + 1).val))

\* the indexes the first for loop appends to highs
highs(pad, left) ==
    {i \in (left + Max(0, ldist - pad)) .. (Len(graph_log) - rdist) :
        is_high(i)}

\* order of plain highs.sort(): ascending (li, -i)
sorted_before_unreversed(a, b) ==
    \/ FracLess(l(a).val, l(b).val)
    \/ (l(a).val = l(b).val /\ a > b)

\* highs.sort(); highs.reverse(): does (l(a), -a) come before (l(b), -b)
sorted_before(a, b) ==
    \/ FracLess(l(b).val, l(a).val)
    \/ (l(a).val = l(b).val /\ a < b)

RECURSIVE sorted_highs(_)
sorted_highs(H) ==
    IF H = {} THEN << >>
    ELSE LET top == CHOOSE a \in H : \A b \in H \ {a} : sorted_before(a, b)
         IN  <<top>> \o sorted_highs(H \ {top})

\* the second for loop: tag is the set of indexes k with tag[k] true
RECURSIVE accept(_, _, _, _)
accept(hs, k, tag, out) ==
    IF k > Len(hs) THEN out
    ELSE LET i == hs[k] IN
         IF i \in tag THEN accept(hs, k + 1, tag, out)
         ELSE accept(hs, k + 1,
                     tag \cup (Max(0, i - dist) ..
                               (Min(Len(graph_log), i + dist) - 1)),
                     Append(out, i))

\* local_maximums without the test of the length of the log
local_maximums_no_length_test(pad, left) ==
    accept(sorted_highs(highs(pad, left)), 1, {}, << >>)

local_maximums(pad, left) ==
    IF Len(graph_log) <= ldist + rdist THEN << >>
    ELSE accept(sorted_highs(highs(pad, left)), 1, {}, << >>)

\* SpeedGraph.render: the (pad, left) it passes to local_maximums
render_left(maxcol) == Max(0, Len(graph_log) - maxcol)
render_pad(maxcol) == maxcol - (Len(graph_log) - render_left(maxcol))
topl(maxcol) == local_maximums(render_pad(maxcol), render_left(maxcol))

\* the chart of a run with the default scale and -m128
GraphAtRest ==
    /\ graph_log = << >>
    /\ bar = << >>
    /\ logarithmic_scale = TRUE
    /\ chart_minimum = 32
    /\ chart_maximum = 128
    /\ units_per_second = "bytes"
    /\ graph_scale = new_graph_scale
    /\ graph_hist = << >>

----------------------------------------------------------------------------
(* console(): wait_all, then MultiGraphDisplay.main or do_progress.  A tap  *)
(* is known here by its kind and by what its feed returns; the estimator   *)
(* and the chart of a display are counted, not computed.                   *)

Taps == 1..Len(cols)

\* the program before any option is read
ConsoleAtRest ==
    /\ urwid_ui = FALSE
    /\ exit_on_complete = FALSE
    /\ zero_files = FALSE
    /\ cols = << >>
    /\ available = << >>
    /\ wait_idx = 1
    /\ sleeps = 0
    /\ feed_value = << >>
    /\ disp_current = << >>
    /\ disp_updates = << >>
    /\ disp_appends = << >>
    /\ tick_polls = << >>
    /\ ticks = 0
    /\ alarm = FALSE
    /\ loop_pc = "wait"
    /\ loop_exit = "none"

waitUnchanged == <<urwid_ui, exit_on_complete, zero_files, cols, feed_value,
                   disp_current, disp_updates, disp_appends, tick_polls,
                   ticks, alarm>>

\* tap.wait: FileTap waits unless report_zero() was called (-z)
tap_wait(i) == cols[i] \in {"file", "file_exp"} /\ ~zero_files

\* wait_all: the tap's wait_creation() has returned
wait_creation_return ==
    /\ wait_idx' = wait_idx + 1
    /\ loop_pc' = IF wait_idx = Len(cols) THEN "main" ELSE "wait"
    /\ UNCHANGED <<sleeps, loop_exit>>

\* one pass of wait_all through the wait_creation() of the current tap:
\* return, or sleep a second and test again; NetworkTap calls its feed,
\* which leaves the program when the interface is absent
wait_creation ==
    /\ loop_pc = "wait"
    /\ wait_idx \in Taps
    /\ IF cols[wait_idx] = "net"
       THEN IF available[wait_idx]
            THEN wait_creation_return
            ELSE /\ loop_pc' = "exited"
                 /\ loop_exit' = "sys.exit(1)"
                 /\ UNCHANGED <<wait_idx, sleeps>>
       ELSE IF ~tap_wait(wait_idx) \/ available[wait_idx]
            THEN wait_creation_return
            ELSE /\ sleeps < MaxSleeps
                 /\ sleeps' = sleeps + 1
                 /\ UNCHANGED <<wait_idx, loop_pc, loop_exit>>
    /\ UNCHANGED <<available, waitUnchanged>>

\* the file is created, the interface comes up
Appear(i) ==
    /\ loop_pc = "wait"
    /\ i \in Taps
    /\ ~available[i]
    /\ available' = [available EXCEPT ![i] = TRUE]
    /\ UNCHANGED <<wait_idx, sleeps, loop_pc, loop_exit, waitUnchanged>>

\* console: except KeyboardInterrupt around wait_all
wait_all_interrupted ==
    /\ loop_pc = "wait"
    /\ wait_idx \in Taps
    /\ loop_pc' = "exited"
    /\ loop_exit' = "interrupt"
    /\ UNCHANGED <<available, wait_idx, sleeps, waitUnchanged>>

loopUnchanged == <<urwid_ui, exit_on_complete, zero_files, cols, available,
                   wait_idx, sleeps>>

\* the state of the displays while one round of polls goes on
RoundStart ==
    [cur |-> disp_current, upd |-> disp_updates, app |-> disp_appends,
     polled |-> << >>, pending |-> 0, eod |-> FALSE]

\* update_readings of a display that forgets the chart
display_update_readings_no_append(i, f, st) ==
    [st EXCEPT !.cur[i] = f,
               !.upd[i] = @ + 1,
               !.pending = @ + (IF cols[i] = "file_exp" /\ f < TapExpectedSize
                                THEN 1 ELSE 0)]

\* GraphDisplay.update_readings once the feed has returned the number f:
\* spd.update(f), append_log(s); GraphDisplayProgress returns
\* current < expected, GraphDisplay returns None
display_update_readings(i, f, st) ==
    [st EXCEPT !.cur[i] = f,
               !.upd[i] = @ + 1,
               !.app[i] = @ + 1,
               !.pending = @ + (IF cols[i] = "file_exp" /\ f < TapExpectedSize
                                THEN 1 ELSE 0)]

\* MultiGraphDisplay.update_readings from display i on; a feed that
\* returns None raises EndOfData out of the loop
RECURSIVE update_readings_from(_, _)
update_readings_from(i, st) ==
    IF i > Len(cols) THEN st
    ELSE LET f    == feed_value[i]
             seen == [st EXCEPT !.polled = Append(@, <<i, f>>)]
         IN  IF f = EndOfData THEN [seen EXCEPT !.eod = TRUE]
             ELSE update_readings_from(i + 1,
                                       display_update_readings(i, f, seen))

update_readings == update_readings_from(1, RoundStart)

\* the displays after the round r
round_recorded(r) ==
    /\ disp_current' = r.cur
    /\ disp_updates' = r.upd
    /\ disp_appends' = r.app
    /\ tick_polls' = r.polled
    /\ ticks' = ticks + 1

\* MultiGraphDisplay.main up to the call of update_callback
MultiGraphDisplay_main ==
    /\ urwid_ui
    /\ loop_pc = "main"
    /\ LET r == update_readings IN
       /\ round_recorded(r)
       /\ IF r.eod
          THEN loop_pc' = "exited" /\ loop_exit' = "eod"
          ELSE IF exit_on_complete /\ r.pending = 0
          THEN loop_pc' = "exited" /\ loop_exit' = "complete"
          ELSE loop_pc' = "called" /\ UNCHANGED loop_exit
    /\ UNCHANGED <<alarm, feed_value, loopUnchanged>>

\* MultiGraphDisplay.update_callback, called by main or by its alarm: the
\* next alarm is set first; ExitMainLoop is raised on EndOfData only
update_callback ==
    /\ urwid_ui
    /\ loop_pc = "called" \/ (loop_pc = "loop" /\ alarm)
    /\ ticks < MaxTicks
    /\ alarm' = TRUE
    /\ LET r == update_readings IN
       /\ round_recorded(r)
       /\ IF r.eod
          THEN loop_pc' = "exited" /\ loop_exit' = "eod"
          ELSE loop_pc' = "loop" /\ UNCHANGED loop_exit
    /\ UNCHANGED <<feed_value, loopUnchanged>>

\* do_progress: the poll before the loop
do_progress_begin ==
    /\ ~urwid_ui
    /\ loop_pc = "main"
    /\ LET f == feed_value[1] IN
       /\ tick_polls' = <<<<1, f>>>>
       /\ ticks' = ticks + 1
       /\ IF f = EndOfData
          THEN /\ loop_pc' = "exited" /\ loop_exit' = "eod"
               /\ UNCHANGED <<disp_current, disp_updates>>
          ELSE /\ loop_pc' = "polling" /\ UNCHANGED loop_exit
               /\ disp_current' = [disp_current EXCEPT ![1] = f]
               /\ disp_updates' = [disp_updates EXCEPT ![1] = @ + 1]
    /\ UNCHANGED <<disp_appends, alarm, feed_value, loopUnchanged>>

\* do_progress: one pass of the while loop
do_progress_loop ==
    /\ ~urwid_ui
    /\ loop_pc = "polling"
    /\ ticks < MaxTicks
    /\ LET f == feed_value[1] IN
       /\ tick_polls' = <<<<1, f>>>>
       /\ ticks' = ticks + 1
       /\ IF f = EndOfData
          THEN /\ loop_pc' = "exited" /\ loop_exit' = "eod"
               /\ UNCHANGED <<disp_current, disp_updates>>
          ELSE /\ disp_current' = [disp_current EXCEPT ![1] = f]
               /\ disp_updates' = [disp_updates EXCEPT ![1] = @ + 1]
               /\ IF exit_on_complete /\ f >= TapExpectedSize
                  THEN loop_pc' = "exited" /\ loop_exit' = "complete"
                  ELSE UNCHANGED <<loop_pc, loop_exit>>
    /\ UNCHANGED <<disp_appends, alarm, feed_value, loopUnchanged>>

feedUnchanged == <<disp_current, disp_updates, disp_appends, tick_polls,
                   ticks, alarm, loop_pc, loop_exit, loopUnchanged>>

\* the file grows, the counter advances
GrowFeed(i) ==
    /\ loop_pc \in {"main", "called", "loop", "polling"}
    /\ i \in Taps
    /\ feed_value[i] # EndOfData
    /\ feed_value[i] < MaxFileSize
    /\ feed_value' = [feed_value EXCEPT ![i] = @ + 1]
    /\ UNCHANGED feedUnchanged

\* the reader of a command has published None
EndFeed(i) ==
    /\ loop_pc \in {"main", "called", "loop", "polling"}
    /\ i \in Taps
    /\ cols[i] = "cmd"
    /\ feed_value[i] # EndOfData
    /\ feed_value' = [feed_value EXCEPT ![i] = EndOfData]
    /\ UNCHANGED feedUnchanged

----------------------------------------------------------------------------
(* Specification Spec: one Speedometer, maxlog in 1..MaxLog, fed arbitrary  *)
(* byte counts at clock steps of zero, one tick, or one second.             *)

Init ==
    /\ maxlog \in 1..MaxLog
    /\ log = << >>
    /\ start = NoReading
    /\ current_size = NoSize
    /\ expected_size = 0
    /\ now = 0
    /\ hist = << >>
    /\ JobsAtRest
    /\ GraphAtRest
    /\ ConsoleAtRest

Next ==
    \E dt \in {0, 1, TicksPerSec}, bytes \in 0..MaxBytes :
        /\ Len(hist) < MaxUpdates
        /\ Speedometer_update(now + dt, bytes)
        /\ UNCHANGED <<maxlog, current_size, expected_size, jobVars, graphVars,
                     consoleVars>>

Spec == Init /\ [][Next]_vars

----------------------------------------------------------------------------
(* Specification SpecProgress: one FileProgress as do_progress (maxlog 4)   *)
(* and the graphical file tap (maxlog 6) construct it, polling a file that  *)
(* starts empty and grows by 0 or 250 bytes between polls, the clock moving *)
(* by zero or one second.                                                   *)

InitProgress ==
    /\ maxlog \in {4, 6}
    /\ log = << >>
    /\ start = NoReading
    /\ current_size = NoSize
    /\ expected_size \in {500, 1000}
    /\ now = 0
    /\ hist = << >>
    /\ JobsAtRest
    /\ GraphAtRest
    /\ ConsoleAtRest

FeedSize(growth) == IF current_size = NoSize THEN 0 ELSE current_size + growth

NextProgress ==
    \E dt \in {0, TicksPerSec}, growth \in {0, 250} :
        /\ Len(hist) < MaxProgressUpdates
        /\ FileProgress_update(now + dt, FeedSize(growth))
        /\ UNCHANGED <<maxlog, expected_size, jobVars, graphVars,
                     consoleVars>>

SpecProgress == InitProgress /\ [][NextProgress]_vars

----------------------------------------------------------------------------
(* Specification SpecReset: the same FileProgress polling a counter that   *)
(* can also go down between polls (a truncated file, a counter that was    *)
(* reset): it holds 500 bytes at the first poll, then changes by -250, 0   *)
(* or 250 bytes and stays at or above 0.                                   *)

ResetSize(change) ==
    IF current_size = NoSize THEN 500 ELSE current_size + change

NextReset ==
    \E dt \in {0, TicksPerSec}, change \in {-250, 0, 250} :
        /\ Len(hist) < MaxResetUpdates
        /\ ResetSize(change) >= 0
        /\ FileProgress_update(now + dt, ResetSize(change))
        /\ UNCHANGED <<maxlog, expected_size, jobVars, graphVars,
                       consoleVars>>

SpecReset == InitProgress /\ [][NextReset]_vars

----------------------------------------------------------------------------
(* Specification SpecCurve: the Speedometer(6) of do_simple and of the      *)
(* graph display, polling a counter that grows by 1 or 2 bytes per poll,    *)
(* the polls one second or one second and one tick apart.                   *)

InitCurve ==
    /\ maxlog = 6
    /\ log = << >>
    /\ start = NoReading
    /\ current_size = NoSize
    /\ expected_size = 0
    /\ now = 0
    /\ hist = << >>
    /\ JobsAtRest
    /\ GraphAtRest
    /\ ConsoleAtRest

LastBytes == IF hist = << >> THEN 0 ELSE hist[Len(hist)][2]

NextCurve ==
    \E dt \in {TicksPerSec, TicksPerSec + 1}, growth \in {1, 2} :
        /\ Len(hist) < MaxCurveUpdates
        /\ Speedometer_update(now + dt, LastBytes + growth)
        /\ UNCHANGED <<maxlog, current_size, expected_size, jobVars, graphVars,
                     consoleVars>>

SpecCurve == InitCurve /\ [][NextCurve]_vars

----------------------------------------------------------------------------
(* Specification SpecCurveStall: the same Speedometer(6) polling a counter  *)
(* that stands still or grows by one byte, the clock standing still or      *)
(* moving one second between polls; a poll that repeats the reading before  *)
(* it leaves an interval for which delta() returns None.                    *)

NextCurveStall ==
    \E dt \in {0, TicksPerSec}, growth \in {0, 1} :
        /\ Len(hist) < MaxStallUpdates
        /\ Speedometer_update(now + dt, LastBytes + growth)
        /\ UNCHANGED <<maxlog, current_size, expected_size, jobVars, graphVars,
                     consoleVars>>

SpecCurveStall == InitCurve /\ [][NextCurveStall]_vars

----------------------------------------------------------------------------
(* Specification SpecJobs: the sampling loop of one run of the program     *)
(* against the reader threads and their sources, every interleaving of     *)
(* their steps.  parse_args admits a stdin tap only when stdin is not a    *)
(* terminal, and then only alone and in plain text; so the runs are the    *)
(* graphical loop over one or two command taps, the plain-text speed loop  *)
(* over one command tap or the stdin tap, and the plain-text progress loop *)
(* over a file, which has no reader.                                       *)

SpeedAtRest ==
    /\ maxlog = 6
    /\ log = << >>
    /\ start = NoReading
    /\ current_size = NoSize
    /\ expected_size = 0
    /\ now = 0
    /\ hist = << >>

TapSets(m) ==
    IF m = "graph" THEN SUBSET {r \in Readers : IsCmd(r)} \ {{}}
    ELSE IF m = "simple" THEN {{r} : r \in Readers}
    ELSE {{}}

InitJobs ==
    /\ SpeedAtRest
    /\ GraphAtRest
    /\ ConsoleAtRest
    /\ \E m \in {"graph", "simple", "progress"} :
           \E t \in TapSets(m) : JobsInit(m, t)

\* the estimator and the chart are not part of this specification
JobsOnly == UNCHANGED <<speedVars, graphVars, consoleVars>>

NextJobs ==
    \/ \E r \in Readers : Poll(r) /\ JobsOnly
    \/ Quit /\ JobsOnly
    \/ Interrupt /\ JobsOnly
    \/ SubprocessJobQueue_stop_all_job /\ JobsOnly
    \/ StdinJobQueue_stop_all_job /\ JobsOnly
    \/ \E r \in Readers : Worker(r) /\ JobsOnly
    \/ \E r \in Readers : Produce(r) /\ JobsOnly
    \/ \E r \in Readers : EndOfStream(r) /\ JobsOnly
    \/ \E r \in Readers : ProcessExit(r) /\ JobsOnly

SpecJobs == InitJobs /\ [][NextJobs]_vars

----------------------------------------------------------------------------
(* Specification SpecJobsFair: SpecJobs under the scheduling the threads   *)
(* get: a thread that can take its next step eventually takes it, and a    *)
(* command that was sent SIGTERM eventually exits, closing its end of the  *)
(* pipe.                                                                   *)

FairJobs ==
    \A r \in Readers :
        /\ WF_vars(Worker(r) /\ JobsOnly)
        /\ WF_vars(ProcessExit(r) /\ JobsOnly)

SpecJobsFair == InitJobs /\ [][NextJobs]_vars /\ FairJobs

----------------------------------------------------------------------------
(* Specification SpecJobsFault: SpecJobs where in addition a source may    *)
(* fail once, so that the next Popen, peek or read on it raises an         *)
(* exception.                                                              *)

NextJobsFault ==
    \/ NextJobs
    \/ \E r \in Readers : Fault(r) /\ JobsOnly

SpecJobsFault == InitJobs /\ [][NextJobsFault]_vars

----------------------------------------------------------------------------
(* Specification SpecGraph: the chart of GraphDisplay.update_readings,     *)
(* which appends speed(1) at every sample: None at the first sample, then  *)
(* one of two rates.                                                       *)

Rates == {Number(48, 1), Number(96, 1)}

InitGraph ==
    /\ SpeedAtRest
    /\ JobsAtRest
    /\ GraphAtRest
    /\ ConsoleAtRest

ScaleUnchanged ==
    UNCHANGED <<speedVars, jobVars, consoleVars, logarithmic_scale,
                chart_minimum, chart_maximum, units_per_second, graph_scale>>

\* self.speed_graph.append_log(s)
Sample(s) ==
    /\ append_log(s)
    /\ graph_hist' = Append(graph_hist, s)
    /\ ScaleUnchanged

NextGraph ==
    \E s \in (IF graph_hist = << >> THEN {None} ELSE Rates) :
        /\ Len(graph_hist) < MaxAppends
        /\ Sample(s)

SpecGraph == InitGraph /\ [][NextGraph]_vars

----------------------------------------------------------------------------
(* Specification SpecGraphRamp: a long run under each scale setting (-l,   *)
(* -n, -m): the first rate after the None is -1, 0 or 1 and every later    *)
(* sample is one above the one before, so that the rates pass the chart's  *)
(* minimum and maximum and the history passes its length limit.            *)

InitRamp ==
    /\ SpeedAtRest
    /\ JobsAtRest
    /\ graph_log = << >>
    /\ bar = << >>
    /\ graph_hist = << >>
    /\ logarithmic_scale \in BOOLEAN
    /\ chart_minimum \in {32, 64}
    /\ chart_maximum \in {128, 256}
    /\ units_per_second = "bytes"
    /\ graph_scale = new_graph_scale
    /\ ConsoleAtRest

RampRates ==
    IF graph_hist = << >> THEN {None}
    ELSE LET last == graph_hist[Len(graph_hist)] IN
         IF last.tag = "None" THEN {Number(-1, 1), Number(0, 1), Number(1, 1)}
         ELSE {Number(last.val.n + 1, 1)}

NextRamp ==
    \E s \in RampRates :
        /\ Len(graph_hist) < MaxRampAppends
        /\ Sample(s)

SpecGraphRamp == InitRamp /\ [][NextRamp]_vars

----------------------------------------------------------------------------
(* Specification SpecScale: console() calling update_scale() once the      *)
(* options are parsed: -l or not, -s or not, and limits given with -n and  *)
(* -m, which parse_args accepts when the minimum is below the maximum.     *)
(* The limits above 2^27 + 1 are tried on the logarithmic scale only.      *)

ScaleMinimums == {0, 1, 3, 5, 7, 32, 2^7, 2^10, 2^10 + 1, 2^15, 2^27}
ScaleMaximums == {1, 2, 3, 4, 8, 12, 2^7, 2^7 + 1, 2^10, 2^10 + 1, 2^12,
                  2^15 + 1, 2^27 + 1, 2^30, 2^30 + 1}

InitScale ==
    /\ SpeedAtRest
    /\ JobsAtRest
    /\ graph_log = << >>
    /\ bar = << >>
    /\ graph_hist = << >>
    /\ logarithmic_scale \in BOOLEAN
    /\ units_per_second \in {"bytes", "bits"}
    /\ chart_minimum \in ScaleMinimums
    /\ chart_maximum \in {m \in ScaleMaximums :
                              /\ chart_minimum < m
                              /\ logarithmic_scale \/ m <= 2^27 + 1}
    /\ graph_scale = NoScale
    /\ ConsoleAtRest

NextScale == update_scale /\ UNCHANGED <<speedVars, jobVars, consoleVars>>

SpecScale == InitScale /\ [][NextScale]_vars

----------------------------------------------------------------------------
(* Specification SpecDisplay: the sampling loop once every tap can be      *)
(* read: the graphical display over one or two taps (files with or without *)
(* an expected size, commands), or do_progress over one file with an       *)
(* expected size; with and without -x.  Keys are not pressed.              *)

RECURSIVE SeqsUpTo(_, _)
SeqsUpTo(S, n) ==
    IF n = 0 THEN {<< >>}
    ELSE LET shorter == SeqsUpTo(S, n - 1)
         IN  shorter \cup {Append(q, x) : q \in shorter, x \in S}

DisplayCols == SeqsUpTo({"file_exp", "file", "cmd"}, MaxTaps) \ {<< >>}

InitDisplay ==
    /\ SpeedAtRest
    /\ JobsAtRest
    /\ GraphAtRest
    /\ urwid_ui \in BOOLEAN
    /\ exit_on_complete \in BOOLEAN
    /\ zero_files = FALSE
    /\ cols \in (IF urwid_ui THEN DisplayCols ELSE {<<"file_exp">>})
    /\ available = [i \in Taps |-> TRUE]
    /\ wait_idx = Len(cols) + 1
    /\ sleeps = 0
    /\ feed_value = [i \in Taps |-> 0]
    /\ disp_current = [i \in Taps |-> NoSize]
    /\ disp_updates = [i \in Taps |-> 0]
    /\ disp_appends = [i \in Taps |-> 0]
    /\ tick_polls = << >>
    /\ ticks = 0
    /\ alarm = FALSE
    /\ loop_pc = "main"
    /\ loop_exit = "none"

ConsoleOnly == UNCHANGED <<speedVars, jobVars, graphVars>>

NextDisplay ==
    \/ MultiGraphDisplay_main /\ ConsoleOnly
    \/ update_callback /\ ConsoleOnly
    \/ do_progress_begin /\ ConsoleOnly
    \/ do_progress_loop /\ ConsoleOnly
    \/ \E i \in 1..MaxTaps : GrowFeed(i) /\ ConsoleOnly
    \/ \E i \in 1..MaxTaps : EndFeed(i) /\ ConsoleOnly

SpecDisplay == InitDisplay /\ [][NextDisplay]_vars

----------------------------------------------------------------------------
(* Specification SpecWait: console() in wait_all over one or two taps      *)
(* (files, network interfaces, commands), each resource there or not at    *)
(* the start and free to appear; with and without -z; the user may press   *)
(* Ctrl-C.                                                                 *)

WaitCols == SeqsUpTo({"file", "net", "cmd"}, MaxTaps) \ {<< >>}

InitWait ==
    /\ SpeedAtRest
    /\ JobsAtRest
    /\ GraphAtRest
    /\ urwid_ui = TRUE
    /\ exit_on_complete = FALSE
    /\ zero_files \in BOOLEAN
    /\ cols \in WaitCols
    /\ available \in [Taps -> BOOLEAN]
    /\ \A i \in Taps : cols[i] = "cmd" => available[i]
    /\ wait_idx = 1
    /\ sleeps = 0
    /\ feed_value = [i \in Taps |-> 0]
    /\ disp_current = [i \in Taps |-> NoSize]
    /\ disp_updates = [i \in Taps |-> 0]
    /\ disp_appends = [i \in Taps |-> 0]
    /\ tick_polls = << >>
    /\ ticks = 0
    /\ alarm = FALSE
    /\ loop_pc = "wait"
    /\ loop_exit = "none"

NextWait ==
    \/ wait_creation /\ ConsoleOnly
    \/ \E i \in 1..MaxTaps : Appear(i) /\ ConsoleOnly
    \/ wait_all_interrupted /\ ConsoleOnly

SpecWait == InitWait /\ [][NextWait]_vars

----------------------------------------------------------------------------
(* Specification SpecReplay: the chart fed a recorded run of rates, where  *)
(* any sample of the run may instead be 0 (no traffic in that interval);   *)
(* the run repeats when it is exhausted.                                   *)

PeakTrace == <<0, 1, 5, 2, 1, 6, 1, 0>>

ReplayRates ==
    IF graph_hist = << >> THEN {None}
    ELSE {Number(PeakTrace[((Len(graph_hist) - 1) % Len(PeakTrace)) + 1], 1),
          Number(0, 1)}

NextReplay ==
    \E s \in ReplayRates :
        /\ Len(graph_hist) < MaxReplay
        /\ Sample(s)

SpecReplay == InitGraph /\ [][NextReplay]_vars

----------------------------------------------------------------------------
(* Properties of the rolling log and of delta() (specification Spec)        *)

\* the argument pairs delta() accepts: its assertions hold
DeltaArgs == {a \in (0..maxlog) \X (0..MaxSkip) : a[2] = 0 \/ a[1] > 0}

C2_DeltaValue ==
    \A a \in DeltaArgs :
        LET readings == a[1]
            skip == a[2]
            d == delta(readings, skip)
            n == Len(hist)
            cur == n - skip            \* position of cur in the history
            tgt == IF readings = 0 THEN 1 ELSE cur - readings
            inlog(k) == k >= 1 /\ k > n - Len(log)
        IN  /\ d.tag \in {"tuple", "None"}
            /\ d.tag = "tuple" =>
                  /\ inlog(cur)
                  /\ tgt >= 1
                  /\ d.time_passed = hist[cur][1] - hist[tgt][1]
                  /\ d.byte_increase = hist[cur][2] - hist[tgt][2]
            /\ (readings > 0 /\ ~inlog(tgt)) => d.tag = "None"
            /\ (inlog(cur) /\ tgt = cur) => d.tag = "None"

\* both forms of delta() have answered with a tuple: one interval, one
\* reading back, and since the start
C2_Witness ==
    /\ delta(1, 1).tag = "tuple"
    /\ delta(1, 1).time_passed > 0
    /\ delta(1, 1).byte_increase # 0
    /\ delta(0, 0).tag = "tuple"
    /\ Len(hist) > Len(log)

\* C3 as stated: delta(readings, skip) is None whenever the log holds fewer
\* than skip+1 readings, for every skip >= 0 and every readings in 0..maxlog.
C3_Original ==
    \A readings \in 0..maxlog, skip \in 0..MaxSkip :
        Len(log) < skip + 1 => delta(readings, skip).tag = "None"

\* C3 (amended): delta(readings, skip) is None whenever the log holds fewer
\* than skip+1 readings, for every argument pair delta() accepts: skip = 0
\* with any readings in 0..maxlog, or skip >= 1 with readings in 1..maxlog.
\* delta(0, skip) with skip >= 1 fails delta()'s assertion instead.
C3_NoneOnShortLog ==
    /\ \A a \in DeltaArgs :
           Len(log) < a[2] + 1 => delta(a[1], a[2]).tag = "None"
    /\ \A skip \in 1..MaxSkip : delta(0, skip).tag = "AssertionError"

\* a log of two readings asked for the reading two places back
C3_Witness ==
    /\ Len(log) = 2
    /\ delta(1, 2).tag = "None"
    /\ delta(1, 0).tag = "tuple"

----------------------------------------------------------------------------
(* Properties of the rate computations                                      *)

\* whole milliseconds in a window of t ticks: int(time_passed*1000)
Millis(t) == Trunc(t, TicksPerMs)

\* the rate the millisecond truncation rule prescribes for a window of t
\* ticks and b bytes: 0 for a window of no whole millisecond, otherwise the
\* whole number trunc(b*1000 / trunc(t*1000))
WholeRate(t, b) ==
    IF t <= 0 \/ Millis(t) = 0 THEN Number(0, 1)
    ELSE Number(Trunc(b * 1000, Millis(t)), 1)

\* every pair of consecutive readings ever recorded is strictly increasing
\* in time and in bytes
Increasing ==
    \A i \in 2..Len(hist) :
        hist[i][1] > hist[i - 1][1] /\ hist[i][2] > hist[i - 1][2]

\* C4: for two or more updates with increasing timestamps and byte counts,
\* average_speed() is (latest bytes - first bytes) / (latest time - first
\* time) under the millisecond truncation rule, measured from the very first
\* update even after it has been trimmed out of the log.
C4_AverageSinceFirst ==
    (Len(hist) >= 2 /\ Increasing) =>
        average_speed = WholeRate(hist[Len(hist)][1] - hist[1][1],
                                  hist[Len(hist)][2] - hist[1][2])

\* C5: delta_to_speed((elapsed, byte_delta)) is 0 when elapsed <= 0 or when
\* elapsed holds no whole millisecond, and otherwise the whole number
\* trunc(trunc(byte_delta*1000) / trunc(elapsed*1000)), never a fraction.
C5_WholeNumberRate ==
    \A a \in DeltaArgs :
        LET d == delta(a[1], a[2])
        IN  d.tag = "tuple" =>
                /\ IsWhole(delta_to_speed(Frac(d.time_passed, TicksPerSec),
                                          Frac(d.byte_increase, 1)))
                /\ delta_to_speed(Frac(d.time_passed, TicksPerSec),
                                  Frac(d.byte_increase, 1))
                       = WholeRate(d.time_passed, d.byte_increase)

\* C10: with non-decreasing timestamps, equal consecutive timestamps
\* included, speed(), current_speed(), average_speed() and curve() yield 0
\* for a window of zero length or of less than a millisecond and never
\* divide by zero.
C10_NoDivisionByZero ==
    /\ \A a \in DeltaArgs :
           LET d == delta(a[1], a[2])
           IN  (d.tag = "tuple" /\ Millis(d.time_passed) = 0) =>
                   EqualsInt(speed(a[1], a[2]), 0)
    /\ current_speed.tag \in {"number", "None"}
    /\ average_speed.tag \in {"number", "None"}
    /\ curve.tag = "number"
    /\ (\A i \in 0..(Len(val) - 1) :
            delta(1, i).tag = "tuple" => Millis(delta(1, i).time_passed) = 0)
           => EqualsInt(curve, 0)

\* the rate of the one-interval window i places back from the newest
\* reading, in bytes per second, as a fraction; the window is non-empty
IntervalRate(i) ==
    Frac((log[Len(log) - i][2] - log[Len(log) - i - 1][2]) * TicksPerSec,
         log[Len(log) - i][1] - log[Len(log) - i - 1][1])

\* the counter grew at the constant rate R over the 6 most recent intervals
ConstantRate(R) ==
    /\ Len(log) >= Len(val) + 1
    /\ \A i \in 0..(Len(val) - 1) :
           /\ log[Len(log) - i][1] > log[Len(log) - i - 1][1]
           /\ log[Len(log) - i][2] > log[Len(log) - i - 1][2]
           /\ IntervalRate(i) = R

\* C6 as stated: a constant rate R over at least the 6 most recent
\* intervals makes curve() return exactly R.
C6_Original ==
    (Len(log) >= Len(val) + 1 /\ ConstantRate(IntervalRate(0))) =>
        curve = [tag |-> "number", val |-> IntervalRate(0)]

\* C6 (amended): a constant rate R that is a whole number of bytes per
\* second, held over at least the 6 most recent intervals, makes curve()
\* return exactly R.
C6_CurveOfWholeConstantRate ==
    (Len(log) >= Len(val) + 1 /\ ConstantRate(IntervalRate(0))
        /\ IntervalRate(0).d = 1) =>
        curve = [tag |-> "number", val |-> IntervalRate(0)]

\* six intervals of 2 bytes per second, and curve() has answered 2
C6_Witness ==
    /\ Len(log) >= Len(val) + 1
    /\ ConstantRate(Frac(2, 1))
    /\ EqualsInt(curve, 2)

----------------------------------------------------------------------------
(* Properties of the progress estimator (specification SpecProgress)        *)

\* the 4-interval window completion_estimate() measures
EstimateWindow == delta(samples_for_estimate, 0)

\* C7 as stated: completion_estimate() is 0 exactly when current_size >=
\* expected_size, and None when the 4-interval byte delta is <= 0.
C7_Original ==
    current_size # NoSize =>
        /\ EqualsInt(completion_estimate, 0) <=> current_size >= expected_size
        /\ (EstimateWindow.tag = "tuple" /\ EstimateWindow.byte_increase <= 0)
               => completion_estimate = None

\* C7 (amended): when the log holds a 4-interval window whose byte delta is
\* > 0, completion_estimate() is 0 if current_size >= expected_size, and if
\* the window took more than no time it is 0 only then; without such a
\* window (too few readings, or a byte delta <= 0) it is None, also when
\* current_size >= expected_size.
C7_CompletionEstimate ==
    current_size # NoSize =>
        /\ (EstimateWindow.tag = "tuple" /\ EstimateWindow.byte_increase > 0
              /\ current_size >= expected_size)
               => EqualsInt(completion_estimate, 0)
        /\ EqualsInt(completion_estimate, 0) =>
               /\ EstimateWindow.tag = "tuple"
               /\ EstimateWindow.byte_increase > 0
               /\ current_size >= expected_size
                      \/ EstimateWindow.time_passed = 0
        /\ (EstimateWindow.tag = "tuple" /\ EstimateWindow.byte_increase <= 0)
               => completion_estimate = None
        /\ EstimateWindow.tag = "None" => completion_estimate = None

\* the transfer is complete within a growing 4-interval window, and the
\* estimate is 0
C7_Witness ==
    /\ current_size >= expected_size
    /\ EstimateWindow.tag = "tuple"
    /\ EstimateWindow.byte_increase > 0
    /\ EstimateWindow.time_passed > 0
    /\ EqualsInt(completion_estimate, 0)

\* the updates so far are the first k of 0, 250, 500, 750, 1000, one second
\* apart, on an estimator expecting 1000 bytes
Scenario(k) ==
    /\ expected_size = 1000
    /\ maxlog >= samples_for_estimate
    /\ Len(hist) = k
    /\ \A i \in 1..k : hist[i][2] = 250 * (i - 1)
    /\ \A i \in 2..k : hist[i][1] - hist[i - 1][1] = TicksPerSec

\* C8: with expected_size = 1000 and updates 0, 250, 500, 750, 1000 one
\* second apart, current_speed() is 250 after each update from the second
\* on, and at the last update completion_estimate() is 0 and progress() is
\* (1000, 1000).
C8_EndToEnd ==
    /\ \A k \in 2..5 : Scenario(k) => EqualsInt(current_speed, 250)
    /\ Scenario(5) =>
           /\ EqualsInt(completion_estimate, 0)
           /\ progress = <<1000, 1000>>

\* the five updates of the scenario have been made
C8_Witness == Scenario(5)

\* C9 as stated: with fewer than 2 readings current_speed(),
\* average_speed() and curve() yield None, and with fewer than 5 readings
\* completion_estimate() yields None.
C9_Original ==
    /\ Len(log) < 2 =>
           /\ current_speed = None
           /\ average_speed = None
           /\ curve = None
    /\ Len(log) < samples_for_estimate + 1 => completion_estimate = None

\* C9 (amended): with fewer than 2 readings current_speed() and
\* average_speed() yield None and curve() yields the number 0; with fewer
\* than 5 readings completion_estimate() yields None; none of them raises.
C9_InsufficientHistory ==
    /\ Len(log) < 2 =>
           /\ current_speed = None
           /\ average_speed = None
           /\ EqualsInt(curve, 0)
    /\ Len(log) < samples_for_estimate + 1 => completion_estimate = None

\* four readings of a completed transfer: one too few for an estimate
C9_Witness ==
    /\ Len(log) = samples_for_estimate
    /\ current_size >= expected_size
    /\ completion_estimate = None

----------------------------------------------------------------------------
(* Properties of the background readers (SpecJobs, SpecJobsFair,           *)
(* SpecJobsFault)                                                          *)

\* the readers whose job has been constructed
Registered == {r \in Readers : wpc[r] # "idle"}

\* how often r occurs in a job_list
Occurrences(job_list, r) ==
    Cardinality({i \in 1..Len(job_list) : job_list[i] = r})

\* C11: the first poll of a stream-backed feed moves its reader from idle to
\* running, starts the worker and returns 0 without waiting for the worker;
\* no later poll starts another worker, so a reader never has more than one;
\* and a poll is never held up by the state of the stream.
C11_OneWorkerPerReader ==
    \A r \in Readers :
        /\ spawned[r] <= 1
        /\ is_running[r] <=> spawned[r] = 1
        /\ is_running[r] <=> wpc[r] # "idle"
        /\ is_running[r] <=> first_poll[r] = 0
        /\ first_poll[r] \in {NotPolled, 0}
        /\ (main_pc = "run" /\ r \in taps) => ENABLED Poll(r)

\* two feeds have been polled; the first poll of one has returned although
\* its worker has not taken a step, and the other's worker waits for data
C11_Witness ==
    /\ main_pc = "run"
    /\ \E r, q \in taps :
          /\ first_poll[r] = 0 /\ wpc[r] = "start"
          /\ first_poll[q] = 0 /\ wpc[q] \in {"check", "select"}
          /\ stream[q] = "idle"

\* C12: a stop request made on a registered reader at any moment sets the
\* reader's stop flag, and a worker that has stopped has published
\* end-of-data, so that the next poll returns end-of-data.
C12_StopIsObserved ==
    \A r \in Registered :
        /\ stop_calls[r] > 0 => current_job_process_is_stop[r]
        /\ wpc[r] = "done" => buffer_current_size[r] = EndOfData

\* C13: a command reader that the stop broadcast reaches while its worker
\* is reading (waiting in peek or in read) eventually has its worker at the
\* end of run_job with end-of-data published.
C13_StopMidReadTerminates ==
    \A r \in Readers :
        stop_midread[r] ~>
            (wpc[r] = "done" /\ buffer_current_size[r] = EndOfData)

\* the broadcast has reached a worker that waits in peek on an empty pipe
C13_Witness ==
    \E r \in Readers :
        /\ stop_midread[r]
        /\ wpc[r] = "check"
        /\ stream[r] = "idle"
        /\ current_job_process[r] = "terminated"

\* C14: when the sampling loop has been left through a user quit or an
\* interrupt, in any of the three loops, stop has been invoked on every
\* registered reader.
C14_StopBroadcastOnExit ==
    (main_pc = "exited" /\ exit_cause \in {"quit", "interrupt"})
        => \A r \in Registered : stop_calls[r] >= 1

\* the stop broadcast has run to its end
Broadcast ==
    /\ main_pc = "exited"
    /\ exit_cause = "quit" \/ (exit_cause = "interrupt" /\ mode = "simple")

\* the job_lists only grow: each is a prefix of its next value
RegistriesGrow ==
    /\ Len(cmd_job_list) <= Len(cmd_job_list')
    /\ SubSeq(cmd_job_list', 1, Len(cmd_job_list)) = cmd_job_list
    /\ Len(stdin_job_list) <= Len(stdin_job_list')
    /\ SubSeq(stdin_job_list', 1, Len(stdin_job_list)) = stdin_job_list

\* C15: a job is in the job_list of its kind, once, from its construction
\* on; a job_list only grows, stop_all_job removes nothing; and one
\* stop_all_job calls stop_job exactly once on each job of the list.
C15_Registry ==
    /\ [](\A r \in Readers :
            /\ Occurrences(cmd_job_list, r) =
                   (IF r \in Registered /\ IsCmd(r) THEN 1 ELSE 0)
            /\ Occurrences(stdin_job_list, r) =
                   (IF r \in Registered /\ ~IsCmd(r) THEN 1 ELSE 0))
    /\ [](Broadcast =>
            \A r \in Readers :
                stop_calls[r] = (IF r \in Registered THEN 1 ELSE 0))
    /\ [][RegistriesGrow]_vars

\* q was pressed with two readers registered; both were stopped, once
C15_Witness ==
    /\ Broadcast
    /\ Len(cmd_job_list) = 2
    /\ \A r \in Registered : stop_calls[r] = 1

\* C16: a worker whose source has failed does not die of the exception: it
\* ends run_job with end-of-data published.
C16_ErrorsEndTheData ==
    \A r \in Readers :
        (faulted[r] /\ wpc[r] \in {"done", "dead"})
            => (wpc[r] = "done" /\ buffer_current_size[r] = EndOfData)

----------------------------------------------------------------------------
(* Properties of the chart (SpecGraph, SpecGraphRamp, SpecReplay)          *)

\* the two histories have the same length and hold the most recent rates
\* and their scaled values
RecentWindow ==
    /\ Len(graph_log) = Len(bar)
    /\ Len(graph_log) <= Len(graph_hist)
    /\ \A i \in 1..Len(graph_log) :
          /\ graph_log[i] = graph_hist[Len(graph_hist) - Len(graph_log) + i]
          /\ bar[i] = <<speed_scale(graph_log[i])>>

\* C17 as stated: after any number of append_log calls each history holds
\* at most 300 entries, the most recent ones, and both have the same length.
C17_Original ==
    /\ Len(graph_log) <= 300
    /\ Len(bar) <= 300
    /\ RecentWindow

\* C17: after any number of append_log calls each history holds at most
\* 301 entries (the last 300 kept plus the new one), namely the most recent
\* min(n, 301) of the n appended, and both have the same length.
C17_BoundedHistories ==
    /\ Len(graph_log) = Min(Len(graph_hist), history_keep + 1)
    /\ Len(graph_log) <= 301
    /\ RecentWindow

\* the oldest rates have been trimmed away
C17_Witness ==
    /\ Len(graph_hist) > history_keep + 1
    /\ Len(graph_log) = history_keep + 1
    /\ graph_log[1] # graph_hist[1]

\* the widths at which the chart is rendered
Widths == {MaxCol \div 2, MaxCol - 3, MaxCol}

\* C18 as stated: for every history local_maximums returns the accepted
\* peak indexes in ascending index order.
C18_Original ==
    \A maxcol \in Widths :
        LET out == topl(maxcol) IN
        \A k \in 1..(Len(out) - 1) : out[k] < out[k + 1]

\* C18: for every history local_maximums returns the accepted peak indexes
\* in the order it accepted them: by decreasing rate, peaks of equal rate by
\* increasing index; and no index twice.
C18_AcceptanceOrder ==
    \A maxcol \in Widths :
        LET out == topl(maxcol) IN
        \A k \in 1..(Len(out) - 1) :
            \/ FracLess(l(out[k + 1]).val, l(out[k]).val)
            \/ /\ l(out[k + 1]).val = l(out[k]).val
               /\ out[k] < out[k + 1]

\* a higher peak is returned before a lower one to its left
C18_Witness ==
    \E maxcol \in Widths :
        LET out == topl(maxcol) IN
        /\ Len(out) >= 2
        /\ out[1] > out[2]
        /\ FracLess(l(out[2]).val, l(out[1]).val)

\* the rates after the leading None are those of PeakTrace
TraceShown ==
    /\ Len(graph_log) = Len(PeakTrace) + 1
    /\ graph_log[1] = None
    /\ \A k \in 1..Len(PeakTrace) : graph_log[k + 1] = Number(PeakTrace[k], 1)

\* C19 as stated: on a history whose rates are 0,1,5,2,1,6,1,0
\* local_maximums returns exactly the index of the 5 and the index of the 6,
\* in that order.
C19_Original ==
    TraceShown =>
        \A maxcol \in Widths :
            LET out == topl(maxcol) IN
            /\ Len(out) = 2
            /\ l(out[1]) = Number(5, 1)
            /\ l(out[2]) = Number(6, 1)
            /\ out[1] < out[2]

\* C19: on a history whose rates are 0,1,5,2,1,6,1,0, as on every history
\* of at most ldist + rdist = 9 entries, local_maximums returns no index.
C19_ShortHistoryHasNoPeaks ==
    \A maxcol \in Widths :
        (TraceShown \/ Len(graph_log) <= ldist + rdist)
            => topl(maxcol) = << >>

C19_Witness == TraceShown

\* the rates speed_scale is tried on, besides the newest one of the chart
ScaleInputs ==
    {None} \cup {Number(k, 1) : k \in {-1, 0, 1, 31, 32, 33, 64, 65, 127, 128,
                                       129, 255, 256, 257}}
              \cup {Number(65, 2), Number(257, 2)}
              \cup {graph_log[i] : i \in {Len(graph_log)} \ {0}}

\* the position the claim gives a positive rate
ClampedPosition(s) ==
    LET lo == Frac(chart_minimum, 1)
        hi == Frac(chart_maximum, 1)
    IN  IF ~FracLess(lo, s.val) THEN Zero
        ELSE IF ~FracLess(s.val, hi) THEN graph_range
        ELSE IF logarithmic_scale THEN Lg(FracDiv(s.val, lo))
        ELSE Lin(FracSub(s.val, lo))

\* C20: speed_scale(r) is 0 for r None or r <= 0; otherwise it is
\* log2(r) - log2(min) clamped to [0, log2(max) - log2(min)] in logarithmic
\* mode and r - min clamped to [0, max - min] in linear mode; so the result
\* lies in [0, graph_range()] and is non-decreasing in r.
C20_SpeedScale ==
    /\ \A s \in ScaleInputs :
          /\ (s.tag = "None" \/ ~FracLess(Frac(0, 1), s.val))
                 => speed_scale(s) = Zero
          /\ (s.tag = "number" /\ FracLess(Frac(0, 1), s.val))
                 => PosEq(speed_scale(s), ClampedPosition(s))
          /\ ~PosLess(speed_scale(s), Zero)
          /\ ~PosLess(graph_range, speed_scale(s))
    /\ \A s, t \in ScaleInputs :
          (s.tag = "number" /\ t.tag = "number" /\ ~FracLess(t.val, s.val))
              => ~PosLess(speed_scale(t), speed_scale(s))

\* the chart holds a rate scaled to 0, one scaled strictly inside the range
\* and one scaled to the top of the range
C20_Witness ==
    /\ ~logarithmic_scale
    /\ \E i \in 1..Len(bar) :
          graph_log[i].tag = "number" /\ PosEq(bar[i][1], Zero)
    /\ \E j \in 1..Len(bar) :
          PosLess(Zero, bar[j][1]) /\ PosLess(bar[j][1], graph_range)
    /\ \E k \in 1..Len(bar) : PosEq(bar[k][1], graph_range)


----------------------------------------------------------------------------
(* Claims about the order of the values a feed returns *)

\* C26: for each reader, whatever the interleaving of its worker and the
\* poller, the value a poll returns can only stay or grow from one step of
\* the program to the next until it is end-of-data, and from then on it is
\* end-of-data at every step, the worker being at its end; so the values of
\* successive polls never decrease and end-of-data is final.
C26_PollsNonDecreasing ==
    [][\A r \in Readers :
          IF stdinfn_result(r) = EndOfData
          THEN /\ wpc[r] = "done"
               /\ stdinfn_result(r)' = EndOfData
          ELSE \/ stdinfn_result(r)' = EndOfData
               \/ stdinfn_result(r)' >= stdinfn_result(r)]_vars

\* a feed whose first poll returned 0 and whose worker then counted chunks,
\* has been polled again and has returned end-of-data
C26_Witness ==
    \E r \in Readers :
        /\ first_poll[r] = 0
        /\ job_size[r] = MaxChunks
        /\ stdinfn_result(r) = EndOfData
        /\ exit_cause = "eod"

\* a worker that is between the start of run_job and its end
WorkerActive(r) == wpc[r] \in {"start", "check", "select", "read", "stop",
                               "publish"}

\* C27: when the stream of a running reader is exhausted, its worker
\* eventually publishes end-of-data and ends; and a poll that returns
\* end-of-data stops the sampling loop.
C27_ExhaustionEndsTheData ==
    /\ \A r \in Readers :
           (stream[r] = "eof" /\ WorkerActive(r))
               ~> (wpc[r] = "done" /\ buffer_current_size[r] = EndOfData)
    /\ [][\A r \in Readers :
             (Poll(r) /\ stdinfn_result(r) = EndOfData)
                 => (main_pc' = "exited" /\ exit_cause' = "eod")]_vars

----------------------------------------------------------------------------
(* Claims about the peaks local_maximums returns *)

\* C29: every index i that local_maximums returns holds a rate, not None,
\* that is not below the rate before it (when there is one) and not below
\* the rate after it; and the rate before it is not equal to it, so that of
\* a run of equal rates only the earliest index can be returned.
C29_ReturnedIndexIsLocalMaximum ==
    \A maxcol \in Widths :
        LET out == topl(maxcol) IN
        \A k \in 1..Len(out) :
            LET i == out[k] IN
            /\ i \in 0..(Len(graph_log) - 2)
            /\ l(i).tag = "number"
            /\ (i > 0 /\ l(i - 1).tag = "number")
                   => /\ ~FracLess(l(i).val, l(i - 1).val)
                      /\ l(i - 1).val # l(i).val
            /\ ~FracLess(l(i).val, l(i + 1).val)

\* a returned peak that begins a run of equal rates, while a later run of
\* the same rate starts left of the first column scanned and reaches into
\* the scanned columns without being returned
C29_Witness ==
    \E maxcol \in Widths :
        LET out   == topl(maxcol)
            first == render_left(maxcol) + Max(0, ldist - render_pad(maxcol))
        IN  /\ \E k \in 1..Len(out) : l(out[k]) = l(out[k] + 1)
            /\ first > 1
            /\ first <= Len(graph_log) - rdist
            /\ l(first) = l(first - 1)
            /\ FracLess(l(first + 1).val, l(first).val)
            /\ \A k \in 1..Len(out) : out[k] # first

\* C30: local_maximums returns the accepted peaks by decreasing rate, peaks
\* of equal rate by increasing index, and any two indexes it returns differ
\* by more than ldist + rdist = 9.
C30_PeaksMoreThanDistApart ==
    \A maxcol \in Widths :
        LET out == topl(maxcol) IN
        /\ \A k \in 1..(Len(out) - 1) : sorted_before(out[k], out[k + 1])
        /\ \A j, k \in 1..Len(out) :
               j # k => Abs(out[j] - out[k]) > dist


----------------------------------------------------------------------------
(* Claims about the weighted sum of curve() *)

\* the interval that ends i readings before the newest one: both its
\* readings are in the log and they differ
IntervalAvailable(i) ==
    /\ Len(log) >= i + 2
    /\ log[Len(log) - i] # log[Len(log) - i - 1]

IntervalElapsed(i) == log[Len(log) - i][1] - log[Len(log) - i - 1][1]
IntervalBytes(i) == log[Len(log) - i][2] - log[Len(log) - i - 1][2]

\* k: the number of intervals available before the first one that is not
AvailableIntervals ==
    CHOOSE k \in 0..6 :
        /\ \A i \in 0..(k - 1) : IntervalAvailable(i)
        /\ k = 6 \/ ~IntervalAvailable(k)

\* W: 6 + 5 + ... over the first k weights
WeightTotal(k) == (k * (13 - k)) \div 2

\* S: the sum over the k newest intervals, interval i weighing 6 - i, in
\* bytes per second
RECURSIVE WeightedSum(_)
WeightedSum(k) ==
    IF k = 0 THEN Frac(0, 1)
    ELSE FracAdd(Frac((6 - (k - 1)) * IntervalBytes(k - 1) * TicksPerSec,
                      IntervalElapsed(k - 1)),
                 WeightedSum(k - 1))

\* C28: with k one-interval deltas available before the first None, curve()
\* is delta_to_speed((W, S)), W the sum of the first k of the weights
\* 6,5,4,3,2,1 and S the sum over those k intervals of weight * bytes /
\* elapsed, the newest interval weighing 6; where one of the k intervals has
\* no elapsed time S has no value and curve() raises ZeroDivisionError.
C28_CurveIsWeightedMean ==
    LET k == AvailableIntervals IN
    IF \E i \in 0..(k - 1) : IntervalElapsed(i) = 0
    THEN curve = Raised("ZeroDivisionError")
    ELSE curve = delta_to_speed(Frac(WeightTotal(k), 1), WeightedSum(k))

\* two intervals count, the third is a repeated reading, and an older
\* interval in which bytes arrived is left out
C28_Witness ==
    /\ AvailableIntervals = 2
    /\ \A i \in 0..1 : IntervalElapsed(i) # 0
    /\ IntervalBytes(0) # IntervalBytes(1)
    /\ \E i \in 3..5 : /\ IntervalAvailable(i)
                       /\ IntervalElapsed(i) # 0
                       /\ IntervalBytes(i) = 1
    /\ curve.tag = "number"
    /\ curve.val # Frac(0, 1)


----------------------------------------------------------------------------
(* Claims about the scale of the chart *)

\* C21: in logarithmic mode, for every minimum below the maximum, the
\* scale update_scale() leaves is exactly the entries of the table of the
\* selected units whose value s satisfies minimum <= s < maximum, in table
\* order.
C21_LogScaleIsTableInRange ==
    (logarithmic_scale /\ graph_scale # NoScale)
        => LET kept == SelectSeq(predefined(units_per_second),
                                 LAMBDA s : chart_minimum <= s
                                            /\ s < chart_maximum)
           IN  /\ Len(graph_scale.items) = Len(kept)
               /\ \A k \in 1..Len(kept) :
                      graph_scale.items[k] = Frac(kept[k], 1)

\* the largest power of two of which four fit between the limits:
\* 2^floor(log2(maximum - minimum) - 2)
FloorGranularity ==
    LET e == FloorLog2(chart_maximum - chart_minimum) - 2
    IN  IF e >= 0 THEN Frac(2^e, 1) ELSE Frac(1, 2^(0 - e))

\* C22: in linear mode, for every pair of whole limits minimum < maximum,
\* the scale is made of the multiples of 2^floor(log2(maximum - minimum) - 2)
\* from the minimum rounded up to below the maximum, four times that
\* granularity fits between the limits and eight times it does not, and the
\* scale has at least 4 values.
C22_LinearScale ==
    (~logarithmic_scale /\ graph_scale # NoScale)
        => LET g     == FloorGranularity
               range == Frac(chart_maximum - chart_minimum, 1)
               lines == graph_scale.items
           IN  /\ ~FracLess(range, FracMul(Frac(4, 1), g))
               /\ FracLess(range, FracMul(Frac(8, 1), g))
               /\ Len(lines) >= 4
               /\ ~FracLess(lines[1], Frac(chart_minimum, 1))
               /\ FracLess(FracSub(lines[1], g), Frac(chart_minimum, 1))
               /\ FracDiv(lines[1], g).d = 1
               /\ \A k \in 1..(Len(lines) - 1) :
                      lines[k + 1] = FracAdd(lines[k], g)
               /\ FracLess(lines[Len(lines)], Frac(chart_maximum, 1))
               /\ ~FracLess(FracAdd(lines[Len(lines)], g),
                            Frac(chart_maximum, 1))


----------------------------------------------------------------------------
(* Claims about console(): the wait for the taps and the sampling loop *)

\* every tap with an expected size has a latest reading at or above it
AllComplete ==
    \A i \in Taps : cols[i] = "file_exp" => disp_current[i] >= TapExpectedSize

\* C23: with -x, once every file tap that has an expected size has been
\* read at or above that size in a round of polls of the loop (the second
\* round or a later one: those of the timer ticks of the display, and those
\* of the loop of do_progress), sampling has stopped and the program has
\* left the loop.
C23_ExitOnComplete ==
    (exit_on_complete /\ ticks >= 2 /\ AllComplete) => loop_pc = "exited"

C25_MissingResourceWaits ==
    /\ [][(/\ loop_pc = "wait"
           /\ wait_idx \in Taps
           /\ ~available[wait_idx]
           /\ cols[wait_idx] = "net" \/ tap_wait(wait_idx))
          => \/ loop_pc' = "wait" /\ wait_idx' = wait_idx
             \/ loop_exit' = "interrupt"]_vars
    /\ [](loop_exit # "sys.exit(1)")


----------------------------------------------------------------------------
(* Claims about a reader before its first data *)

\* C33: for a running reader, of a command or of stdin, whose worker has
\* not counted a chunk and has not published end-of-data, a poll returns 0,
\* the value the first poll returned.
C33_ZeroBeforeData ==
    \A r \in Readers :
        (is_running[r] /\ job_size[r] = 0
            /\ buffer_current_size[r] # EndOfData)
            => (first_poll[r] = 0 /\ stdinfn_result(r) = 0)


----------------------------------------------------------------------------
(* Claims about a counter that goes down *)

\* the bytes and the ticks between the reading k readings before the
\* newest one and the newest one
BytesOver(k) == log[Len(log)][2] - log[Len(log) - k][2]
TicksOver(k) == log[Len(log)][1] - log[Len(log) - k][1]

\* the rate of b bytes in t ticks, unclamped: 0 for a window shorter than
\* a millisecond, else b * 1000 over the whole milliseconds
UnclampedRate(b, t) ==
    IF t \div TicksPerMs = 0 THEN Number(0, 1)
    ELSE Number(b * 1000, t \div TicksPerMs)

C31_ScanWindow ==
    \A maxcol \in Widths :
        LET out == topl(maxcol) IN
        /\ \A k \in 1..Len(out) :
              /\ out[k] < Len(graph_log) - rdist
              /\ out[k] >= render_left(maxcol)
              /\ render_pad(maxcol) = 0
                    => out[k] >= render_left(maxcol) + ldist
        /\ Len(graph_log) <= ldist + rdist => out = << >>

====
